---- MODULE Spec2Model ----
(***************************************************************************)
(* Table recovery pipeline (something.py, class AdvancedPDFProcessor) and  *)
(* the table block parser / markdown renderer (table_parser.py).           *)
(*                                                                         *)
(* Numbers.  Layout coordinates are PDF points; the model keeps them as    *)
(* integers.  The caption midpoint (x0 + x1) / 2 is compared after         *)
(* multiplying both sides by 2, and the products 0.45 * W and 0.55 * W     *)
(* are kept exactly in hundredths of a point (45 * W, 55 * W).             *)
(*                                                                         *)
(* Text.  A string is a sequence of lines, a line is a sequence of         *)
(* whitespace-separated tokens, the empty string is the empty sequence.    *)
(***************************************************************************)
EXTENDS Integers, Sequences, FiniteSets, TLC

VARIABLES
    \* ---- one call of a function under test (SpecCover, SpecRegion)
    args,               \* the arguments of the call
    ret,                \* the value returned
    called,             \* has the call been made
    \* ---- AdvancedPDFProcessor
    processed_tables,   \* self.processed_tables
    processing_log,     \* self.processing_log
    error_count,        \* self.error_count
    roi,                \* rectangles handed to page.get_pixmap(clip=rect), in call order
    ocr_calls,          \* number of pytesseract.image_to_string calls made
    extract_calls,      \* number of extract_table_image_ocr calls made
    cover_calls,        \* number of is_covered_by_pdfplumber calls made
    \* ---- AdvancedPDFProcessor.process
    pc,                 \* position in process(): "idle", "page", "caption", "done"
    num_pages,          \* len(self.doc)
    spans_read,         \* text spans of the document read so far
    page_num,           \* index of the page being processed, from 0
    page,               \* that page: its rectangle and its detector tables
    page_text,          \* page.get_text()
    captions,           \* find_table_captions(page)
    i,                  \* index of the caption being processed, from 0
    processed_captions, \* caption texts handled on this page
    plumber_table,      \* what is_covered_by_pdfplumber returned last (0 for None)
    extracted_table_text,
    table_count,
    image_table_count,
    full_content,       \* list of strings, joined by "\n" at the end
    \* ---- table_parser: parse_extracted_file and parse_table_block
    p_pc,               \* position: "idle", "chunks", "lines", "done"
    chunks_read,        \* caption chunks handed to parse_table_block so far
    lines_read,         \* chunk lines read so far, over all chunks
    current_caption,
    lines,              \* the lines of the current chunk read so far
    current_list,       \* "base" or "tuned": the list current_list is bound to
    base_rows,
    tuned_rows,
    parsed_tables,
    \* ---- run_extraction and process_all_extracted_files
    doc,                \* what the document may hold: page texts, text spans, OCR answers
    run_pc,             \* position in run_extraction: "idle", "loop", "process", "returned", "raised"
    pdf_files,          \* the PDF files found in the directory pdfs
    file_index,         \* index of the file the loop is at, from 0
    files,              \* the output files extracted_<name>_enhanced.pdf.txt
    stdout,             \* what was printed
    passes              \* calls of process_all_extracted_files made

fnVars   == <<args, ret, called>>
selfVars == <<processed_tables, processing_log, error_count, roi, ocr_calls,
              extract_calls, cover_calls>>
procVars == <<pc, num_pages, spans_read, page_num, page, page_text, captions, i,
              processed_captions, plumber_table, extracted_table_text, table_count, image_table_count, full_content>>
parseVars == <<p_pc, chunks_read, lines_read, current_caption, lines, current_list,
               base_rows, tuned_rows, parsed_tables>>
runVars  == <<doc, run_pc, pdf_files, file_index, files, stdout, passes>>
vars     == <<args, ret, called, processed_tables, processing_log, error_count,
              roi, ocr_calls, extract_calls, cover_calls,
              pc, num_pages, spans_read, page_num, page, page_text, captions, i,
              processed_captions, plumber_table, extracted_table_text,
              table_count, image_table_count, full_content,
              p_pc, chunks_read, lines_read, current_caption, lines, current_list,
              base_rows, tuned_rows, parsed_tables,
              doc, run_pc, pdf_files, file_index, files, stdout, passes>>

None == -1      \* Python's None where a number is expected

Min(a, b) == IF a <= b THEN a ELSE b

(***************************************************************************)
(* Bounds of the model.                                                    *)
(***************************************************************************)
MaxTables == 2      \* detector tables on one page
MaxOff    == 6      \* next caption tops tried around the 20 pt threshold

(***************************************************************************)
(* Coverage Checker: is_covered_by_pdfplumber.                             *)
(***************************************************************************)
\* line 67: 0 < (table_top - caption_bottom) < 100
GapOkLoose(table, caption_bbox) ==
    /\ 0 <= table.y0 - caption_bbox.y1
    /\ table.y0 - caption_bbox.y1 <= 100

GapOk(table, caption_bbox) ==
    /\ 0 < table.y0 - caption_bbox.y1
    /\ table.y0 - caption_bbox.y1 < 100

\* lines 69-70: table.bbox[0] < (caption x0 + caption x1) / 2 < table.bbox[2]
CenterInside(table, caption_bbox) ==
    /\ 2 * table.x0 < caption_bbox.x0 + caption_bbox.x1
    /\ caption_bbox.x0 + caption_bbox.x1 < 2 * table.x1

\* the for loop of lines 64-73 from table k on: index of the table returned,
\* 0 for None
RECURSIVE ScanTables(_, _, _)
ScanTables(tables, caption_bbox, k) ==
    IF k > Len(tables) THEN 0
    ELSE IF GapOk(tables[k], caption_bbox) /\ CenterInside(tables[k], caption_bbox)
         THEN k
         ELSE ScanTables(tables, caption_bbox, k + 1)

is_covered_by_pdfplumber(tables, caption_bbox) ==
    ScanTables(tables, caption_bbox, 1)

(***************************************************************************)
(* AdvancedPDFProcessor.log.  A message is its format, the page number it  *)
(* carries (0 when none) and the caption text it carries (<<>> when none). *)
(***************************************************************************)
Msg(fmt, n, text) == [fmt |-> fmt, n |-> n, text |-> text]

\* the words of a caption text that contain "Warning" or "Error"
WarnWords == {"Warning", "Error", "Errors"}

\* line 23: "Warning" in message or "Error" in message
FlaggedNever(m) == FALSE

Flagged(m) ==
    \/ m.fmt \in {"[Warning] Invalid ROI calculated. Using default height.",
                  "[Warning] Caption at bottom of page. Skipping."}
    \/ \E j \in 1..Len(m.text) : m.text[j].s \in WarnWords

RECURSIVE CountFlagged(_)
CountFlagged(msgs) ==
    IF msgs = <<>> THEN 0
    ELSE (IF Flagged(msgs[1]) THEN 1 ELSE 0) + CountFlagged(Tail(msgs))

(***************************************************************************)
(* str.strip() of a text: leading and trailing blank lines go.             *)
(***************************************************************************)
RECURSIVE DropLeadingBlank(_)
DropLeadingBlank(t) ==
    IF t # <<>> /\ t[1] = <<>> THEN DropLeadingBlank(Tail(t)) ELSE t

RECURSIVE DropTrailingBlank(_)
DropTrailingBlank(t) ==
    IF t # <<>> /\ t[Len(t)] = <<>>
    THEN DropTrailingBlank(SubSeq(t, 1, Len(t) - 1)) ELSE t

Strip(t) == DropTrailingBlank(DropLeadingBlank(t))

(***************************************************************************)
(* Region Inferencer: extract_table_image_ocr, lines 81-117.               *)
(* Rect x edges are in hundredths of a point, y edges in points.           *)
(***************************************************************************)
\* lines 86-100
ColumnSwapped(caption_bbox, page_width) ==
    IF 100 * (caption_bbox.x0 + caption_bbox.x1) <= 2 * 45 * page_width THEN "left"
    ELSE IF 100 * (caption_bbox.x0 + caption_bbox.x1) >= 2 * 55 * page_width THEN "right"
    ELSE "full"

Column(caption_bbox, page_width) ==
    IF 100 * (caption_bbox.x0 + caption_bbox.x1) < 2 * 45 * page_width THEN "left"
    ELSE IF 100 * (caption_bbox.x0 + caption_bbox.x1) > 2 * 55 * page_width THEN "right"
    ELSE "full"

CropX0(column, page_width) == IF column = "right" THEN 45 * page_width ELSE 0

CropX1(column, page_width) == IF column = "left" THEN 55 * page_width ELSE 100 * page_width

\* line 104 without the 20 units: any next top below y0 is used
UseNextTopWhenBelow(next_element_top, y0) ==
    /\ next_element_top # None
    /\ next_element_top # 0
    /\ next_element_top > y0

\* line 104: next_element_top and next_element_top > y0 + 20
UseNextTop(next_element_top, y0) ==
    /\ next_element_top # None
    /\ next_element_top # 0
    /\ next_element_top > y0 + 20

\* lines 104-108
FirstBottom(next_element_top, y0, page_height) ==
    IF UseNextTop(next_element_top, y0)
    THEN next_element_top - 5
    ELSE Min(y0 + 500, page_height - 50)

\* lines 111-113
FinalBottomUnchecked(first_y1, y0, page_height) == first_y1

FinalBottom(first_y1, y0, page_height) ==
    IF first_y1 <= y0 THEN Min(y0 + 300, page_height) ELSE first_y1

\* line 115
SkipNever(y0, page_height) == FALSE

Skip(y0, page_height) == y0 >= page_height

\* everything the function computes before rendering
Region(caption_bbox, next_element_top, page_rect) ==
    LET column   == Column(caption_bbox, page_rect.width)
        y0       == caption_bbox.y1 + 5
        first_y1 == FirstBottom(next_element_top, y0, page_rect.height)
    IN  [column   |-> column,
         x0       |-> CropX0(column, page_rect.width),
         x1       |-> CropX1(column, page_rect.width),
         y0       |-> y0,
         first_y1 |-> first_y1,
         y1       |-> FinalBottom(first_y1, y0, page_rect.height),
         invalid  |-> first_y1 <= y0,
         skip     |-> Skip(y0, page_rect.height)]

LayoutMsg(column) ==
    CASE column = "left"  -> Msg("-> Detected Left Column Layout", 0, <<>>)
      [] column = "right" -> Msg("-> Detected Right Column Layout", 0, <<>>)
      [] OTHER            -> Msg("-> Detected Full Width Layout", 0, <<>>)

\* The whole call, given what the OCR engine answers (scan) if it is asked:
\* the messages logged, the rectangles rendered, the OCR calls made and the
\* text returned.
extract_table_image_ocr(caption_bbox, next_element_top, page_rect, scan) ==
    LET r    == Region(caption_bbox, next_element_top, page_rect)
        warn == IF r.invalid
                THEN <<Msg("[Warning] Invalid ROI calculated. Using default height.", 0, <<>>)>>
                ELSE <<>>
    IN  IF r.skip
        THEN [msgs  |-> <<LayoutMsg(r.column)>> \o warn
                        \o <<Msg("[Warning] Caption at bottom of page. Skipping.", 0, <<>>)>>,
              rects |-> <<>>,
              ocr   |-> 0,
              text  |-> <<>>]
        ELSE [msgs  |-> <<LayoutMsg(r.column)>> \o warn \o <<Msg("ROI", 0, <<>>)>>,
              rects |-> <<[x0 |-> r.x0, y0 |-> r.y0, x1 |-> r.x1, y1 |-> r.y1]>>,
              ocr   |-> 1,
              text  |-> Strip(scan)]

(***************************************************************************)
(* Tokens and sample texts.  A word token carries its spelling; a number   *)
(* token [0-9]*\.\d+ carries its integer part (None when the text omits    *)
(* it, as in ".8856") and its fraction in ten-thousandths.                 *)
(***************************************************************************)
Word(s)    == [k |-> "w", s |-> s, ip |-> 0, v |-> 0]
Num(ip, v) == [k |-> "n", s |-> "", ip |-> ip, v |-> v]

\* what pytesseract.image_to_string may answer
OcrScans ==
    { <<>>,
      << <<>>, <<>> >>,
      << <<>>, <<Word("SVM"), Num(0, 9123), Num(0, 8890), Num(0, 9001)>>, <<>> >> }

(***************************************************************************)
(* Objects at rest, for the specifications that do not use them.           *)
(***************************************************************************)
SelfInit ==
    /\ processed_tables = <<>>
    /\ processing_log = <<>>
    /\ error_count = 0
    /\ roi = <<>>
    /\ ocr_calls = 0
    /\ extract_calls = 0
    /\ cover_calls = 0

NoPage == [rect |-> [width |-> 0, height |-> 0], tables |-> <<>>]

ProcIdle ==
    /\ pc = "idle"
    /\ num_pages = 0
    /\ spans_read = 0
    /\ page_num = 0
    /\ page = NoPage
    /\ page_text = <<>>
    /\ captions = <<>>
    /\ i = 0
    /\ processed_captions = {}
    /\ plumber_table = 0
    /\ extracted_table_text = <<>>
    /\ table_count = 0
    /\ image_table_count = 0
    /\ full_content = <<>>

ParseIdle ==
    /\ p_pc = "idle"
    /\ chunks_read = 0
    /\ lines_read = 0
    /\ current_caption = <<>>
    /\ lines = <<>>
    /\ current_list = "base"
    /\ base_rows = <<>>
    /\ tuned_rows = <<>>
    /\ parsed_tables = <<>>

NoDoc == [texts |-> {}, spans |-> {}, max_spans |-> 0, scans |-> {}]

BatchIdle ==
    /\ run_pc = "idle"
    /\ pdf_files = <<>>
    /\ file_index = 0
    /\ files = <<>>
    /\ stdout = <<>>
    /\ passes = 0

RunIdle ==
    /\ doc = NoDoc
    /\ BatchIdle

(***************************************************************************)
(* SpecCover: one call of is_covered_by_pdfplumber on any caption box and  *)
(* any list of detector tables.                                            *)
(***************************************************************************)
SeqsUpTo(S, n) == UNION {[1..m -> S] : m \in 0..n}

CoverCaptions ==
    {[x0 |-> a, y0 |-> 190, x1 |-> 20, y1 |-> 200] : a \in {10, 11}}

CoverTables ==
    {[x0 |-> a, y0 |-> 200 + g, x1 |-> b, y1 |-> 400] :
        a \in {0, 15, 16}, b \in {15, 16, 30}, g \in {-1, 0, 1, 99, 100, 101}}

InitCover ==
    /\ args \in [caption_bbox : CoverCaptions,
                 tables : SeqsUpTo({t \in CoverTables : t.x0 < t.x1}, MaxTables)]
    /\ ret = 0
    /\ called = FALSE
    /\ SelfInit
    /\ ProcIdle
    /\ ParseIdle
    /\ RunIdle

CallCover ==
    /\ ~called
    /\ ret' = is_covered_by_pdfplumber(args.tables, args.caption_bbox)
    /\ called' = TRUE
    /\ UNCHANGED <<runVars, parseVars, args, selfVars, procVars>>

NextCover == CallCover

SpecCover == InitCover /\ [][NextCover]_vars

(***************************************************************************)
(* SpecRegion: one call of extract_table_image_ocr on any caption box,     *)
(* page rectangle and optional next caption top.                           *)
(***************************************************************************)
PageRects == {[width |-> w, height |-> h] : w \in {20, 33}, h \in {300, 800}}

RegionCaptions(page_rect) ==
    {[x0 |-> a, y0 |-> b - 10, x1 |-> a + w, y1 |-> b] :
        a \in 0..(page_rect.width - 5), w \in {4, 5}, b \in {100, 250, 295, 300}}

NextTops(caption_bbox) ==
    {None, 0} \cup {caption_bbox.y1 + 5 + 20 + d : d \in (0 - MaxOff)..MaxOff}

\* the locals of a call that has not run
NoRegion ==
    [column |-> "", x0 |-> 0, x1 |-> 0, y0 |-> 0, first_y1 |-> 0, y1 |-> 0,
     invalid |-> FALSE, skip |-> FALSE]

InitRegion ==
    /\ \E page_rect \in PageRects :
         \E caption_bbox \in RegionCaptions(page_rect) :
           \E next_element_top \in NextTops(caption_bbox) :
             args = [caption_bbox |-> caption_bbox,
                     next_element_top |-> next_element_top,
                     page_rect |-> page_rect]
    /\ ret = [value |-> <<>>, locals |-> NoRegion]
    /\ called = FALSE
    /\ SelfInit
    /\ ProcIdle
    /\ ParseIdle
    /\ RunIdle

CallExtract ==
    /\ ~called
    /\ \E scan \in OcrScans :
         LET out == extract_table_image_ocr(args.caption_bbox, args.next_element_top,
                                            args.page_rect, scan)
         IN  /\ processing_log' = processing_log \o out.msgs
             /\ error_count' = error_count + CountFlagged(out.msgs)
             /\ roi' = roi \o out.rects
             /\ ocr_calls' = ocr_calls + out.ocr
             /\ extract_calls' = extract_calls + 1
             /\ ret' = [value |-> out.text,
                        locals |-> Region(args.caption_bbox, args.next_element_top,
                                          args.page_rect)]
    /\ called' = TRUE
    /\ UNCHANGED <<runVars, parseVars, args, processed_tables, cover_calls, procVars>>

NextRegion == CallExtract

SpecRegion == InitRegion /\ [][NextRegion]_vars

(***************************************************************************)
(* Caption Locator: find_table_captions.                                   *)
(***************************************************************************)
IntTok(n) == [k |-> "i", s |-> "", ip |-> n, v |-> 0]

\* does the token start with a digit (\d+ at its start)
StartsWithDigit(tok) ==
    \/ tok.k = "i"
    \/ tok.k = "n" /\ tok.ip # None
    \/ tok.k = "w" /\ tok.s \in {"1.", "2:"}

\* line 35: ^(TABLE|Table)\s+\d+ , re.IGNORECASE, on the stripped span text
CaptionPattern(text) ==
    /\ Len(text) >= 2
    /\ text[1].k = "w" /\ text[1].s \in {"TABLE", "Table", "table"}
    /\ StartsWithDigit(text[2])

\* line 51 with a sort that puts c before the captions of equal top
RECURSIVE InsertByTopBeforeEqual(_, _)
InsertByTopBeforeEqual(c, sorted) ==
    IF sorted = <<>> THEN <<c>>
    ELSE IF sorted[1].bbox.y0 < c.bbox.y0
         THEN <<sorted[1]>> \o InsertByTopBeforeEqual(c, Tail(sorted))
         ELSE <<c>> \o sorted

\* line 51, list.sort(key = y0): stable, so c goes behind every caption
\* whose top is <= its own
RECURSIVE InsertByTop(_, _)
InsertByTop(c, sorted) ==
    IF sorted = <<>> THEN <<c>>
    ELSE IF sorted[1].bbox.y0 <= c.bbox.y0
         THEN <<sorted[1]>> \o InsertByTop(c, Tail(sorted))
         ELSE <<c>> \o sorted

RECURSIVE SortByTop(_)
SortByTop(cs) ==
    IF cs = <<>> THEN <<>>
    ELSE InsertByTop(cs[Len(cs)], SortByTop(SubSeq(cs, 1, Len(cs) - 1)))

find_table_captions(spans) ==
    SortByTop(SelectSeq(spans, LAMBDA sp : CaptionPattern(sp.text)))

(***************************************************************************)
(* SpecCaptions: one call of find_table_captions on the spans of a page,   *)
(* in the order page.get_text("dict") lists them.                          *)
(***************************************************************************)
MaxSpans == 3      \* text spans of the page

\* span texts: three that match caption_pattern and two that do not
SpanTexts ==
    { <<Word("TABLE"), IntTok(1)>>,
      <<Word("Table"), Word("2:"), Word("Error"), Word("rates")>>,
      <<Word("table"), IntTok(3)>>,
      <<Word("Figure"), IntTok(1)>>,
      <<Word("Tables"), IntTok(1), Word("and"), IntTok(2)>> }

\* two boxes of one top edge, side by side, and one box below them
SpanBoxes ==
    { [x0 |-> 50, y0 |-> 100, x1 |-> 150, y1 |-> 110],
      [x0 |-> 320, y0 |-> 100, x1 |-> 420, y1 |-> 110],
      [x0 |-> 50, y0 |-> 120, x1 |-> 150, y1 |-> 130] }

PageSpans == {[text |-> t, bbox |-> b] : t \in SpanTexts, b \in SpanBoxes}

InitCaptions ==
    /\ args \in SeqsUpTo(PageSpans, MaxSpans)
    /\ ret = <<>>
    /\ called = FALSE
    /\ SelfInit
    /\ ProcIdle
    /\ ParseIdle
    /\ RunIdle

CallCaptions ==
    /\ ~called
    /\ ret' = find_table_captions(args)
    /\ called' = TRUE
    /\ UNCHANGED <<runVars, parseVars, args, selfVars, procVars>>

NextCaptions == CallCaptions

SpecCaptions == InitCaptions /\ [][NextCaptions]_vars

(***************************************************************************)
(* Page Pipeline Orchestrator: AdvancedPDFProcessor.process.               *)
(***************************************************************************)
MaxPages    == 2      \* pages of a document
MaxDocSpans == 3      \* text spans of a document

T1   == <<Word("TABLE"), IntTok(1)>>
T2E  == <<Word("Table"), Word("2:"), Word("Error"), Word("rates")>>
Fig1 == <<Word("Figure"), IntTok(1)>>

BoxA == [x0 |-> 50, y0 |-> 100, x1 |-> 150, y1 |-> 110]
BoxB == [x0 |-> 50, y0 |-> 120, x1 |-> 150, y1 |-> 130]
BoxD == [x0 |-> 50, y0 |-> 788, x1 |-> 150, y1 |-> 798]

DocSpans == {[text |-> t, bbox |-> b] : t \in {T1, T2E, Fig1}, b \in {BoxA, BoxB, BoxD}}

\* a detector table under BoxA and BoxB
TableA == [x0 |-> 40, y0 |-> 150, x1 |-> 300, y1 |-> 300]

Prose == <<Word("Results"), Word("are"), Word("shown"), Word("below")>>

PageTexts == { <<Prose, <<>> >> }

\* the pages a document may hold when n spans are still allowed
DocPages(n) ==
    [rect   : {[width |-> 600, height |-> 800]},
     tables : {<<>>, <<TableA>>},
     text   : doc.texts,
     spans  : SeqsUpTo(doc.spans, n)]

Init ==
    /\ args = <<>>
    /\ ret = [content |-> <<>>, table_count |-> 0, image_table_count |-> 0]
    /\ called = FALSE
    /\ SelfInit
    /\ ParseIdle
    /\ doc = [texts |-> PageTexts, spans |-> DocSpans, max_spans |-> MaxDocSpans,
              scans |-> OcrScans]
    /\ BatchIdle
    /\ pc = "page"
    /\ num_pages \in 1..MaxPages
    /\ spans_read = 0
    /\ page_num = 0
    /\ page = NoPage
    /\ page_text = <<>>
    /\ captions = <<>>
    /\ i = 0
    /\ processed_captions = {}
    /\ plumber_table = 0
    /\ extracted_table_text = <<>>
    /\ table_count = 0
    /\ image_table_count = 0
    /\ full_content = <<>>

\* self.log(message) for each message in turn
Log(msgs) ==
    /\ processing_log' = processing_log \o msgs
    /\ error_count' = error_count + CountFlagged(msgs)

\* lines 140-149: the next page of the document is read
StartPage ==
    /\ pc = "page"
    /\ page_num < num_pages
    /\ \E pg \in DocPages(doc.max_spans - spans_read) :
         /\ page' = [rect |-> pg.rect, tables |-> pg.tables]
         /\ page_text' = pg.text
         /\ captions' = find_table_captions(pg.spans)
         /\ spans_read' = spans_read + Len(pg.spans)
    /\ Log(<<Msg("Processing Page", page_num + 1, <<>>)>>)
    /\ processed_captions' = {}
    /\ i' = 0
    /\ pc' = "caption"
    /\ UNCHANGED <<runVars, parseVars, fnVars, processed_tables, roi, ocr_calls, extract_calls, cover_calls,
                   num_pages, page_num, plumber_table, extracted_table_text,
                   table_count, image_table_count, full_content>>

\* line 157
AlreadyProcessedNever(caption_text, done) == FALSE

AlreadyProcessed(caption_text, done) == caption_text \in done

\* lines 152-158: a caption whose text was met before on this page
DuplicateCaption ==
    /\ pc = "caption"
    /\ i < Len(captions)
    /\ AlreadyProcessed(captions[i + 1].text, processed_captions)
    /\ Log(<<Msg("Found Caption:", 0, captions[i + 1].text)>>)
    /\ i' = i + 1
    /\ UNCHANGED <<runVars, parseVars, fnVars, processed_tables, roi, ocr_calls, extract_calls, cover_calls,
                   pc, num_pages, spans_read, page_num, page, page_text, captions,
                   processed_captions, plumber_table, extracted_table_text,
                   table_count, image_table_count, full_content>>

\* line 168: if plumber_table (0 stands for None)
IsTableNever(table) == FALSE

IsTable(table) == table # 0

\* lines 152-172: a caption with a native table below it
CoveredCaption ==
    /\ pc = "caption"
    /\ i < Len(captions)
    /\ ~AlreadyProcessed(captions[i + 1].text, processed_captions)
    /\ IsTable(is_covered_by_pdfplumber(page.tables, captions[i + 1].bbox))
    /\ processed_captions' = processed_captions \cup {captions[i + 1].text}
    /\ cover_calls' = cover_calls + 1
    /\ plumber_table' = is_covered_by_pdfplumber(page.tables, captions[i + 1].bbox)
    /\ extracted_table_text' = <<>>
    /\ Log(<<Msg("Found Caption:", 0, captions[i + 1].text),
             Msg("-> Covered by standard table extraction.", 0, <<>>)>>)
    /\ table_count' = table_count + 1
    /\ i' = i + 1
    /\ UNCHANGED <<runVars, parseVars, fnVars, processed_tables, roi, ocr_calls, extract_calls,
                   pc, num_pages, spans_read, page_num, page, page_text, captions,
                   image_table_count, full_content>>

\* lines 180-182
NextTop(caps, idx) == IF idx + 1 < Len(caps) THEN caps[idx + 2].bbox.y0 ELSE None

\* line 186: if extracted_table_text
IsStoredAlways(text) == TRUE

IsStored(text) == text # <<>>

\* line 176 moved under the test of line 186: counted only when text came
ImageCountIfText(count, text) == IF text # <<>> THEN count + 1 ELSE count

\* line 176: image_table_count += 1, before the OCR text is known
ImageCount(count, text) == count + 1

\* lines 152-192: a caption with no native table below it
OcrCaption ==
    /\ pc = "caption"
    /\ i < Len(captions)
    /\ ~AlreadyProcessed(captions[i + 1].text, processed_captions)
    /\ ~IsTable(is_covered_by_pdfplumber(page.tables, captions[i + 1].bbox))
    /\ processed_captions' = processed_captions \cup {captions[i + 1].text}
    /\ cover_calls' = cover_calls + 1
    /\ plumber_table' = is_covered_by_pdfplumber(page.tables, captions[i + 1].bbox)
    /\ table_count' = table_count + 1
    /\ \E scan \in doc.scans :
         LET out == extract_table_image_ocr(captions[i + 1].bbox, NextTop(captions, i),
                                            page.rect, scan)
         IN  /\ Log(<<Msg("Found Caption:", 0, captions[i + 1].text),
                      Msg("-> Not covered by standard table. Initiating OCR...", 0, <<>>)>>
                    \o out.msgs)
             /\ roi' = roi \o out.rects
             /\ ocr_calls' = ocr_calls + out.ocr
             /\ extract_calls' = extract_calls + 1
             /\ extracted_table_text' = out.text
             /\ image_table_count' = ImageCount(image_table_count, out.text)
             /\ processed_tables' =
                  IF IsStored(out.text)
                  THEN Append(processed_tables,
                              [page |-> page_num + 1, caption |-> captions[i + 1].text,
                               content |-> out.text, type |-> "image_ocr"])
                  ELSE processed_tables
    /\ i' = i + 1
    /\ UNCHANGED <<runVars, parseVars, fnVars, pc, num_pages, spans_read, page_num, page, page_text,
                   captions, full_content>>

PageMarker(n) == << <<Word("---"), Word("Page"), IntTok(n), Word("---")>> >>

DetectedMarker == <<Word("==="), Word("DETECTED"), Word("IMAGE-BASED"), Word("TABLES"), Word("===")>>

Terminator == <<Word("===================================")>>

\* lines 202-205
RECURSIVE TableEntries(_)
TableEntries(page_tables) ==
    IF page_tables = <<>> THEN <<>>
    ELSE << << <<Word("Caption:")>> \o page_tables[1].caption >>,
            page_tables[1].content,
            <<Terminator, <<>> >> >>
         \o TableEntries(Tail(page_tables))

\* line 199 without its test on the page
PageTablesOfAnyPage(tables, n) == tables

\* line 199: the tables stored for page n
PageTables(tables, n) == SelectSeq(tables, LAMBDA t : t.page = n)

\* lines 194-205: the page's text and its OCR tables go to full_content
EndPage ==
    /\ pc = "caption"
    /\ i = Len(captions)
    /\ LET page_tables == PageTables(processed_tables, page_num + 1)
       IN  full_content' =
             full_content \o <<PageMarker(page_num + 1), page_text>>
             \o (IF page_tables # <<>>
                 THEN << << <<>>, DetectedMarker >> >> \o TableEntries(page_tables)
                 ELSE <<>>)
    /\ page_num' = page_num + 1
    /\ pc' = "page"
    /\ UNCHANGED <<runVars, parseVars, fnVars, selfVars, num_pages, spans_read, page, page_text, captions, i,
                   processed_captions, plumber_table, extracted_table_text,
                   table_count, image_table_count>>

\* "\n".join(list): the empty string is one blank line
RECURSIVE Join(_)
Join(list) ==
    IF list = <<>> THEN <<>>
    ELSE (IF list[1] = <<>> THEN << <<>> >> ELSE list[1]) \o Join(Tail(list))

\* line 207
Return ==
    /\ pc = "page"
    /\ page_num = num_pages
    /\ ret' = [content |-> Join(full_content), table_count |-> table_count,
               image_table_count |-> image_table_count]
    /\ called' = TRUE
    /\ pc' = "done"
    /\ UNCHANGED <<runVars, parseVars, args, selfVars, num_pages, spans_read, page_num, page, page_text,
                   captions, i, processed_captions, plumber_table, extracted_table_text,
                   table_count, image_table_count, full_content>>

Next ==
    \/ StartPage
    \/ DuplicateCaption
    \/ CoveredCaption
    \/ OcrCaption
    \/ EndPage
    \/ Return

Spec == Init /\ [][Next]_vars

(***************************************************************************)
(* Table Block Parser: parse_table_block.                                  *)
(***************************************************************************)
\* row_pattern, line 108, on a stripped line:
\*   ^\s*(.+?)\s+([0-9]*\.\d+)\s+([0-9]*\.\d+)\s+([0-9]*\.\d+)
\* The label is the shortest run of leading tokens that is followed by three
\* number tokens in a row; what follows the third number is not looked at.
\* The value is the number of label tokens, 0 when the line does not match.
IsNumber(tok) == tok.k = "n"

RowMatch(line) ==
    LET fits == {j \in 1..(Len(line) - 3) :
                    IsNumber(line[j + 1]) /\ IsNumber(line[j + 2]) /\ IsNumber(line[j + 3])}
    IN  IF fits = {} THEN 0 ELSE CHOOSE j \in fits : \A m \in fits : j <= m

\* float() of a number token, in ten-thousandths
Float(tok) == (IF tok.ip = None THEN 0 ELSE tok.ip) * 10000 + tok.v

\* lines 117-128
ParsedRow(line) ==
    LET j == RowMatch(line)
    IN  [Model     |-> SubSeq(line, 1, j),
         Precision |-> Float(line[j + 1]),
         Recall    |-> Float(line[j + 2]),
         F1        |-> Float(line[j + 3])]

\* words whose lowercase form contains "optimal" or "tuned" / contains "base"
TunedWords == {"tuned", "Tuned", "optimal", "Optimal", "fine-tuned"}
BaseWords  == {"base", "Base", "baseline", "Baseline", "Image-Based", "IMAGE-BASED"}

\* line 133: "optimal" in lower_line or "tuned" in lower_line
HasTuned(line) == \E j \in 1..Len(line) : line[j].k = "w" /\ line[j].s \in TunedWords

\* line 136: "base" in lower_line
HasBase(line) == \E j \in 1..Len(line) : line[j].k = "w" /\ line[j].s \in BaseWords

\* lines 132-138 with the tuned trigger lost
SwitchedToBaseOnly(current, line) ==
    IF HasBase(line) THEN "base" ELSE current

\* lines 132-138: the list current_list is bound to after a line that is no row
Switched(current, line) ==
    IF HasTuned(line) THEN "tuned"
    ELSE IF HasBase(line) THEN "base"
    ELSE current

\* lines 110-138 with the context detection put before the row pattern
LineStepContextFirst(st, line) ==
    IF line = <<>> THEN st
    ELSE IF HasTuned(line) \/ HasBase(line)
    THEN [st EXCEPT !.current = Switched(st.current, line)]
    ELSE IF RowMatch(line) # 0
    THEN IF st.current = "base"
         THEN [st EXCEPT !.base = Append(st.base, ParsedRow(line))]
         ELSE [st EXCEPT !.tuned = Append(st.tuned, ParsedRow(line))]
    ELSE st

\* lines 110-138: one turn of the loop; st is (current_list, base_rows, tuned_rows)
LineStep(st, line) ==
    IF line = <<>> THEN st
    ELSE IF RowMatch(line) # 0
    THEN IF st.current = "base"
         THEN [st EXCEPT !.base = Append(st.base, ParsedRow(line))]
         ELSE [st EXCEPT !.tuned = Append(st.tuned, ParsedRow(line))]
    ELSE [st EXCEPT !.current = Switched(st.current, line)]

RECURSIVE ParseLines(_, _)
ParseLines(st, ls) ==
    IF ls = <<>> THEN st ELSE ParseLines(LineStep(st, ls[1]), Tail(ls))

\* lines 94-140
parse_table_block(text) ==
    LET st == ParseLines([current |-> "base", base |-> <<>>, tuned |-> <<>>], Strip(text))
    IN  [base |-> st.base, tuned |-> st.tuned]

(***************************************************************************)
(* SpecLine: one turn of the loop of parse_table_block (lines 110-138) on  *)
(* any line, with any context and any rows found before.                   *)
(***************************************************************************)
MaxNumbers == 4      \* decimal numbers in a row on one line

\* what a line starts with: nothing, a model name, names with keywords
LineLabels ==
    { <<>>,
      <<Word("SVM")>>,
      <<Word("tuned"), Word("SVM")>>,
      <<Word("Baseline")>>,
      <<Word("Optimal"), Word("vs"), Word("base")>> }

\* what follows the numbers of a line
LineTrailers == { <<>>, <<Word("tuned")>>, <<IntTok(7)>> }

TestLines ==
    {label \o numbers \o rest :
        label \in LineLabels,
        numbers \in SeqsUpTo({Num(0, 9123), Num(None, 8500)}, MaxNumbers),
        rest \in LineTrailers}

RowsBefore == { <<>>, <<[Model |-> <<Word("CNN")>>, Precision |-> 8500, Recall |-> 8000,
                         F1 |-> 9000]>> }

InitLine ==
    /\ args \in [st : [current : {"base", "tuned"}, base : RowsBefore, tuned : RowsBefore],
                 line : TestLines]
    /\ ret = [current |-> "base", base |-> <<>>, tuned |-> <<>>]
    /\ called = FALSE
    /\ SelfInit
    /\ ProcIdle
    /\ ParseIdle
    /\ RunIdle

CallLineStep ==
    /\ ~called
    /\ ret' = LineStep(args.st, args.line)
    /\ called' = TRUE
    /\ UNCHANGED <<runVars, parseVars, args, selfVars, procVars>>

NextLine == CallLineStep

SpecLine == InitLine /\ [][NextLine]_vars

(***************************************************************************)
(* Markdown Renderer: format_value and generate_markdown_table.            *)
(***************************************************************************)
\* lines 5-16: "{:.4f}".format(float(val)) of a value in ten-thousandths
format_value(val) == Num(val \div 10000, val % 10000)

\* line 45 with blanks alone between the numbers
RowLineNoPipes(row) ==
    <<Word("|")>> \o row.Model
    \o <<Word("|"), format_value(row.F1), format_value(row.Precision),
         format_value(row.Recall), Word("|")>>

\* line 45 with the columns in the order they are stored
RowLineStoredOrder(row) ==
    <<Word("|")>> \o row.Model
    \o <<Word("|"), format_value(row.Precision), Word("|"), format_value(row.Recall),
         Word("|"), format_value(row.F1), Word("|")>>

\* lines 40-45: f"| {model} | {f1} | {precision} | {recall} |"
RowLine(row) ==
    <<Word("|")>> \o row.Model
    \o <<Word("|"), format_value(row.F1), Word("|"), format_value(row.Precision),
         Word("|"), format_value(row.Recall), Word("|")>>

\* lines 27-28
ContextLine(is_tuned) ==
    IF is_tuned
    THEN <<Word("**Context:"), Word("Tuned"), Word("/"), Word("Optimized"),
           Word("Performance**")>>
    ELSE <<Word("**Context:"), Word("Base"), Word("Performance**")>>

\* lines 32-35
HeaderLine ==
    <<Word("|"), Word("Model"), Word("|"), Word("F1"), Word("Score"), Word("|"),
      Word("Precision"), Word("|"), Word("Recall"), Word("|")>>

\* lines 33-36
AlignLine ==
    <<Word("|"), Word(":---"), Word("|"), Word("---:"), Word("|"), Word("---:"),
      Word("|"), Word("---:"), Word("|")>>

\* lines 20-47
generate_markdown_table(rows, is_tuned) ==
    <<ContextLine(is_tuned), <<>>, HeaderLine, AlignLine>>
    \o [k \in 1..Len(rows) |-> RowLine(rows[k])]

(***************************************************************************)
(* SpecRow: one matching line is parsed and the row it gives is rendered.  *)
(***************************************************************************)
Labels == { <<Word("SVM")>>, <<Word("Random"), Word("Forest")>>, <<Word("CNN"), Word("(ours)")>> }

NumberToks == {Num(0, 9123), Num(None, 8500), Num(1, 0), Num(0, 5)}

Trailers == { <<>>, <<Word("*")>> }

InitRow ==
    /\ \E label \in Labels : \E v1, v2, v3 \in NumberToks : \E rest \in Trailers :
         args = label \o <<v1, v2, v3>> \o rest
    /\ ret = [rows |-> [base |-> <<>>, tuned |-> <<>>], markdown |-> <<>>]
    /\ called = FALSE
    /\ SelfInit
    /\ ProcIdle
    /\ ParseIdle
    /\ RunIdle

CallParseRender ==
    /\ ~called
    /\ LET rows == parse_table_block(<<args>>)
       IN  ret' = [rows |-> rows, markdown |-> generate_markdown_table(rows.base, FALSE)]
    /\ called' = TRUE
    /\ UNCHANGED <<runVars, parseVars, args, selfVars, procVars>>

NextRow == CallParseRender

SpecRow == InitRow /\ [][NextRow]_vars

(***************************************************************************)
(* SpecRoundTrip: one ParsedRow is rendered and the rendered markdown row  *)
(* is handed back to parse_table_block.                                    *)
(***************************************************************************)
RowValues == {0, 5, 5000, 6000, 7000, 10000}

\* labels parse_table_block can produce, one of them made of numbers:
\* "0.1 0.2 0.3 x 0.5 0.6 0.7" has the label "0.1 0.2 0.3 x"
RowLabels == Labels \cup { <<Num(0, 1000), Num(0, 2000), Num(0, 3000), Word("x")>> }

InitRoundTrip ==
    /\ args \in [Model : RowLabels, Precision : RowValues, Recall : RowValues, F1 : RowValues]
    /\ ret = [base |-> <<>>, tuned |-> <<>>]
    /\ called = FALSE
    /\ SelfInit
    /\ ProcIdle
    /\ ParseIdle
    /\ RunIdle

CallRenderParse ==
    /\ ~called
    /\ LET markdown == generate_markdown_table(<<args>>, FALSE)
       IN  ret' = parse_table_block(<<markdown[Len(markdown)]>>)
    /\ called' = TRUE
    /\ UNCHANGED <<runVars, parseVars, args, selfVars, procVars>>

NextRoundTrip == CallRenderParse

SpecRoundTrip == InitRoundTrip /\ [][NextRoundTrip]_vars

(***************************************************************************)
(* SpecParse: parse_extracted_file hands the caption chunks of a tables    *)
(* section to parse_table_block one after the other (lines 73-90); the     *)
(* lines of a chunk are read one turn of the loop at a time.               *)
(***************************************************************************)
MaxChunks     == 2      \* caption chunks of a section
MaxChunkLines == 3      \* lines of all chunks together

RowSVM == <<Word("SVM"), Num(0, 9123), Num(0, 8890), Num(0, 9001)>>
RowCNN == <<Word("CNN"), Num(None, 8500), Num(None, 8000), Num(None, 9000)>>

ChunkLines ==
    { RowSVM, RowCNN,
      <<Word("tuned")>>,
      <<Word("base"), Word("model")>>,
      <<Word("Optimal"), Word("vs"), Word("baseline")>>,
      <<Word("SVM"), Word("tuned"), Num(0, 9000), Num(0, 8000), Num(0, 7000)>>,
      Prose,
      <<>> }

ChunkCaptions == { <<Word("Caption:"), Word("TABLE"), IntTok(1)>>,
                   <<Word("Caption:"), Word("TABLE"), IntTok(2)>> }

InitParse ==
    /\ args = <<>>
    /\ ret = <<>>
    /\ called = FALSE
    /\ SelfInit
    /\ ProcIdle
    /\ RunIdle
    /\ p_pc = "chunks"
    /\ chunks_read = 0
    /\ lines_read = 0
    /\ current_caption = <<>>
    /\ lines = <<>>
    /\ current_list = "base"
    /\ base_rows = <<>>
    /\ tuned_rows = <<>>
    /\ parsed_tables = <<>>

\* lines 74-79 and 95-100: a caption, then its chunk goes to parse_table_block
BeginChunk ==
    /\ p_pc = "chunks"
    /\ chunks_read < MaxChunks
    /\ \E caption \in ChunkCaptions : current_caption' = caption
    /\ chunks_read' = chunks_read + 1
    /\ lines' = <<>>
    /\ current_list' = "base"
    /\ base_rows' = <<>>
    /\ tuned_rows' = <<>>
    /\ p_pc' = "lines"
    /\ UNCHANGED <<runVars, fnVars, selfVars, procVars, lines_read, parsed_tables>>

\* one turn of the loop of lines 110-138 on the line given
ReadLine(line) ==
    /\ p_pc = "lines"
    /\ lines_read < MaxChunkLines
    /\ LET st == LineStep([current |-> current_list, base |-> base_rows,
                           tuned |-> tuned_rows], line)
       IN  /\ current_list' = st.current
           /\ base_rows' = st.base
           /\ tuned_rows' = st.tuned
    /\ lines' = Append(lines, line)
    /\ lines_read' = lines_read + 1
    /\ UNCHANGED <<runVars, fnVars, selfVars, procVars, p_pc, chunks_read, current_caption,
                   parsed_tables>>

\* lines 115-129
ReadRowLine == \E line \in ChunkLines : RowMatch(line) # 0 /\ ReadLine(line)

\* lines 132-138
ReadContextLine ==
    \E line \in ChunkLines :
        /\ line # <<>> /\ RowMatch(line) = 0 /\ (HasTuned(line) \/ HasBase(line))
        /\ ReadLine(line)

\* line 112, and the lines that fall through every test
ReadOtherLine ==
    \E line \in ChunkLines :
        /\ line = <<>> \/ (RowMatch(line) = 0 /\ ~HasTuned(line) /\ ~HasBase(line))
        /\ ReadLine(line)

\* lines 81-88 without the test "if rows" of line 82
RenderedEmptyToo(caption, base, tuned) ==
    <<[caption |-> caption, markdown |-> generate_markdown_table(base, FALSE)],
      [caption |-> caption, markdown |-> generate_markdown_table(tuned, TRUE)]>>

\* lines 81-88: the tables rendered from the dict {"base": ..., "tuned": ...}
Rendered(caption, base, tuned) ==
    (IF base # <<>>
     THEN <<[caption |-> caption, markdown |-> generate_markdown_table(base, FALSE)]>>
     ELSE <<>>)
    \o (IF tuned # <<>>
        THEN <<[caption |-> caption, markdown |-> generate_markdown_table(tuned, TRUE)]>>
        ELSE <<>>)

\* lines 140 and 81-90: parse_table_block returns and its buckets are rendered
EndChunk ==
    /\ p_pc = "lines"
    /\ parsed_tables' = parsed_tables \o Rendered(current_caption, base_rows, tuned_rows)
    /\ current_caption' = <<>>
    /\ p_pc' = "chunks"
    /\ UNCHANGED <<runVars, fnVars, selfVars, procVars, chunks_read, lines_read, lines,
                   current_list, base_rows, tuned_rows>>

\* line 92
ReturnParsed ==
    /\ p_pc = "chunks"
    /\ p_pc' = "done"
    /\ UNCHANGED <<runVars, fnVars, selfVars, procVars, chunks_read, lines_read, current_caption,
                   lines, current_list, base_rows, tuned_rows, parsed_tables>>

NextParse ==
    \/ BeginChunk
    \/ ReadRowLine
    \/ ReadContextLine
    \/ ReadOtherLine
    \/ EndChunk
    \/ ReturnParsed

SpecParse == InitParse /\ [][NextParse]_vars

(***************************************************************************)
(* Files.  The content of a file is the list content.split("\n") gives:    *)
(* its last element is the line still open at the end of the file.         *)
(***************************************************************************)
\* the empty string is one open empty line
Lines(t) == IF t = <<>> THEN << <<>> >> ELSE t

\* a + b: the open line of a goes on with the first line of b
Concat(a, b) ==
    LET x == Lines(a)
        y == Lines(b)
    IN  SubSeq(x, 1, Len(x) - 1) \o << x[Len(x)] \o y[1] >> \o Tail(y)

NoFile == [exists |-> FALSE, content |-> <<>>]

File(content) == [exists |-> TRUE, content |-> content]

(***************************************************************************)
(* run_extraction, something.py lines 242-248: the artifact of a document. *)
(***************************************************************************)
SummaryMarker == <<Word("---"), Word("PROCESSING"), Word("SUMMARY"), Word("---")>>

\* lines 244-248; the date is whatever time.strftime answers
Summary(total_tables, image_tables, errors) ==
    << <<>>, <<>>, SummaryMarker,
       <<Word("Total"), Word("Tables"), Word("Detected:"), IntTok(total_tables)>>,
       <<Word("Image-Based"), Word("Tables"), Word("Extracted:"), IntTok(image_tables)>>,
       <<Word("Issues/Errors:"), IntTok(errors)>>,
       <<Word("Processing"), Word("Date:"), Word("YYYY-MM-DD"), Word("HH:MM:SS")>>,
       <<>> >>

\* lines 242-248: what the with-block leaves in the output file
Artifact(content, total_tables, image_tables, errors) ==
    Concat(content, Summary(total_tables, image_tables, errors))

(***************************************************************************)
(* parse_extracted_file, table_parser.py lines 49-92, on the content read. *)
(* The texts of the model hold the marker of the detected tables as a      *)
(* whole line, and no decimal number behind "Caption: TABLE".              *)
(***************************************************************************)
\* line 59 with a marker that is never found
SplitSectionsUnsplit(ls, part) == <<ls>>

\* line 59: content.split("=== DETECTED IMAGE-BASED TABLES ==="), ls being
\* the lines not yet looked at and part the lines of the part being built
RECURSIVE SplitSections(_, _)
SplitSections(ls, part) ==
    IF ls = <<>> THEN <<part>>
    ELSE IF ls[1] = DetectedMarker
         THEN <<Append(part, <<>>)>> \o SplitSections(Tail(ls), << <<>> >>)
         ELSE SplitSections(Tail(ls), Append(part, ls[1]))

CaptionWords == {"Caption:", "caption:", "CAPTION:"}
TableWords   == {"TABLE", "Table", "table"}

\* \d+\.? at the start of a token
StartsWithDigits(tok) == tok.k = "i" \/ (tok.k = "w" /\ tok.s \in {"1.", "2:"})

\* what \d+\.? takes of the token, and what it leaves
DigitsTaken(tok) == IF tok.k = "w" /\ tok.s = "2:" THEN IntTok(2) ELSE tok
DigitsLeft(tok)  == IF tok.k = "w" /\ tok.s = "2:" THEN <<Word(":")>> ELSE <<>>

\* line 69: where "Caption: TABLE \d+\.?" (re.IGNORECASE) first matches in a
\* line, 0 when it does not
CaptionAt(line) ==
    LET fits == {j \in 1..(Len(line) - 2) :
                    /\ line[j].k = "w" /\ line[j].s \in CaptionWords
                    /\ line[j + 1].k = "w" /\ line[j + 1].s \in TableWords
                    /\ StartsWithDigits(line[j + 2])}
    IN  IF fits = {} THEN 0 ELSE CHOOSE j \in fits : \A m \in fits : j <= m

\* line 69, re.split with its capturing group: the pieces between the
\* captions and the captions themselves, in order.  open is the rest of the
\* line being read, rest the lines behind it, cur the lines of the piece
\* being built; is_caption is chunk.startswith("Caption:") of line 74.
RECURSIVE SplitCaptions(_, _, _)
SplitCaptions(open, rest, cur) ==
    LET j == CaptionAt(open)
    IN  IF j = 0
        THEN IF rest = <<>>
             THEN <<[is_caption |-> FALSE, text |-> Append(cur, open)]>>
             ELSE SplitCaptions(rest[1], Tail(rest), Append(cur, open))
        ELSE <<[is_caption |-> FALSE, text |-> Append(cur, SubSeq(open, 1, j - 1))],
               [is_caption |-> open[j].s = "Caption:",
                text |-> << <<open[j], open[j + 1], DigitsTaken(open[j + 2])>> >>]>>
             \o SplitCaptions(DigitsLeft(open[j + 2]) \o SubSeq(open, j + 3, Len(open)),
                              rest, <<>>)

\* lines 73-90: the loop over the pieces of one section; caption is
\* current_caption, the empty line when it is ""
RECURSIVE ChunkLoop(_, _)
ChunkLoop(raw_tables, caption) ==
    IF raw_tables = <<>> THEN <<>>
    ELSE IF raw_tables[1].is_caption
         THEN ChunkLoop(Tail(raw_tables), raw_tables[1].text[1])
    ELSE IF caption # <<>>
         THEN LET tables_data == parse_table_block(raw_tables[1].text)
              IN  Rendered(caption, tables_data.base, tables_data.tuned)
                  \o ChunkLoop(Tail(raw_tables), <<>>)
    ELSE ChunkLoop(Tail(raw_tables), caption)

\* lines 67-90: the loop over the sections behind the first part
RECURSIVE SectionLoop(_)
SectionLoop(sections) ==
    IF sections = <<>> THEN <<>>
    ELSE LET table_section == Lines(sections[1])
         IN  ChunkLoop(SplitCaptions(table_section[1], Tail(table_section), <<>>), <<>>)
             \o SectionLoop(Tail(sections))

parse_extracted_file(content) ==
    LET parts == SplitSections(content, <<>>)
    IN  IF Len(parts) < 2 THEN <<>> ELSE SectionLoop(Tail(parts))

(***************************************************************************)
(* process_all_extracted_files, table_parser.py lines 142-171: what one    *)
(* call appends to an output file.                                         *)
(***************************************************************************)
StandardizedMarker ==
    <<Word("==="), Word("STANDARDIZED"), Word("MARKDOWN"), Word("TABLES"), Word("===")>>

\* lines 163-166
RECURSIVE TableBlocks(_)
TableBlocks(tables) ==
    IF tables = <<>> THEN <<>>
    ELSE Concat(Concat(Concat(<< <<>>, <<Word("##")>> \o tables[1].caption, <<>> >>,
                              tables[1].markdown),
                       << <<>>, <<>> >>),
                TableBlocks(Tail(tables)))

\* lines 160-168
Standardized(tables) ==
    Concat(<< <<>>, <<>>, StandardizedMarker, <<>> >>,
           IF tables # <<>> THEN TableBlocks(tables)
           ELSE << <<>>,
                   <<Word("No"), Word("standardized"), Word("tables"), Word("available.")>>,
                   <<>> >>)

(***************************************************************************)
(* SpecPipeline: the main program of something.py (lines 441-448) on one   *)
(* document.  run_extraction has process() run and writes the artifact,    *)
(* then process_all_extracted_files is called on it, here up to MaxPasses  *)
(* times (table_parser.py can be run again on its own, line 190).          *)
(***************************************************************************)
MaxPasses    == 2      \* calls of process_all_extracted_files
MaxPipeSpans == 2      \* text spans of the document

RowModelA == <<Word("ModelA"), Num(0, 5000), Num(0, 6000), Num(0, 7000)>>

PipeTexts == { <<Prose, <<>> >>, <<Prose, RowCNN, <<>> >> }

PipeSpans == { [text |-> T1, bbox |-> BoxA], [text |-> T1, bbox |-> BoxB],
               [text |-> T2E, bbox |-> BoxD] }

PipeScans == { <<>>, <<RowModelA>>, << <<Word("tuned")>>, RowSVM, <<>> >> }

InitPipeline ==
    /\ args = <<>>
    /\ ret = [content |-> <<>>, table_count |-> 0, image_table_count |-> 0]
    /\ called = FALSE
    /\ SelfInit
    /\ ParseIdle
    /\ doc = [texts |-> PipeTexts, spans |-> PipeSpans, max_spans |-> MaxPipeSpans,
              scans |-> PipeScans]
    /\ run_pc = "process"
    /\ pdf_files = <<"paper1">>
    /\ file_index = 0
    /\ files = [f \in {"paper1"} |-> NoFile]
    /\ stdout = <<Msg("Found PDF(s) to process.", 1, <<>>),
                  Msg("Processing", 0, <<Word("paper1")>>)>>
    /\ passes = 0
    /\ pc = "page"
    /\ num_pages \in 1..MaxPages
    /\ spans_read = 0
    /\ page_num = 0
    /\ page = NoPage
    /\ page_text = <<>>
    /\ captions = <<>>
    /\ i = 0
    /\ processed_captions = {}
    /\ plumber_table = 0
    /\ extracted_table_text = <<>>
    /\ table_count = 0
    /\ image_table_count = 0
    /\ full_content = <<>>

\* something.py lines 240-252: process() has returned, the artifact is written
WriteResult ==
    /\ run_pc = "process"
    /\ pc = "done"
    /\ files' = [files EXCEPT ![pdf_files[file_index + 1]] =
                   File(Artifact(ret.content, ret.table_count, ret.image_table_count,
                                 error_count))]
    /\ stdout' = Append(stdout, Msg("Successfully processed", 0, <<Word(pdf_files[file_index + 1])>>))
    /\ file_index' = file_index + 1
    /\ run_pc' = "returned"
    /\ UNCHANGED <<fnVars, selfVars, procVars, parseVars, doc, pdf_files, passes>>

\* table_parser.py lines 142-171: one call of process_all_extracted_files
ParsingPass ==
    /\ run_pc = "returned"
    /\ passes < MaxPasses
    /\ \E filepath \in DOMAIN files :
         /\ files[filepath].exists
         /\ LET tables == parse_extracted_file(files[filepath].content)
            IN  /\ parsed_tables' = tables
                /\ files' = [files EXCEPT ![filepath] =
                               File(Concat(files[filepath].content, Standardized(tables)))]
    /\ passes' = passes + 1
    /\ UNCHANGED <<fnVars, selfVars, procVars, p_pc, chunks_read, lines_read,
                   current_caption, lines, current_list, base_rows, tuned_rows,
                   doc, run_pc, pdf_files, file_index, stdout>>

NextPipeline ==
    \/ StartPage
    \/ DuplicateCaption
    \/ CoveredCaption
    \/ OcrCaption
    \/ EndPage
    \/ Return
    \/ WriteResult
    \/ ParsingPass

SpecPipeline == InitPipeline /\ [][NextPipeline]_vars

(***************************************************************************)
(* SpecBatch: run_extraction, something.py lines 209-257, over the PDF     *)
(* files of the directory.  What the constructor and process() do with a   *)
(* document is an input here: they return a result or raise.               *)
(***************************************************************************)
MaxFiles == 2      \* PDF files in the directory

FileNames == {"paper1", "paper2", "paper3"}

\* sequences of distinct names
Batches == {b \in SeqsUpTo(FileNames, MaxFiles) :
               \A j, m \in 1..Len(b) : j # m => b[j] # b[m]}

\* what process() may return, with the error count of the processor
ProcessResults ==
    { [content |-> << <<Word("---"), Word("Page"), IntTok(1), Word("---")>>, Prose, <<>> >>,
       table_count |-> 0, image_table_count |-> 0, error_count |-> 0],
      [content |-> << <<Word("---"), Word("Page"), IntTok(1), Word("---")>>, Prose, <<>>,
                      <<>>, DetectedMarker, <<Word("Caption:")>> \o T1, RowModelA,
                      Terminator, <<>> >>,
       table_count |-> 1, image_table_count |-> 1, error_count |-> 0] }

\* subclasses of Exception the engines raise, and one that is none
ExceptionClasses == {"FileDataError", "TesseractError"}

Outcomes ==
    {[kind |-> "returns", result |-> r, at |-> "", exc |-> ""] : r \in ProcessResults}
    \cup {[kind |-> "raises", result |-> <<>>, at |-> "open", exc |-> "FileDataError"],
          [kind |-> "raises", result |-> <<>>, at |-> "process", exc |-> "TesseractError"],
          [kind |-> "raises", result |-> <<>>, at |-> "process", exc |-> "KeyboardInterrupt"]}

\* an artifact left by an earlier run
StaleFile == File(<< <<Word("---"), Word("Page"), IntTok(1), Word("---")>>, <<>> >>)

InitBatch ==
    /\ \E dir_exists \in BOOLEAN :
         \E outcome \in [FileNames -> Outcomes] :
           args = [dir_exists |-> dir_exists, outcome |-> outcome]
    /\ ret = FALSE
    /\ called = FALSE
    /\ SelfInit
    /\ ProcIdle
    /\ ParseIdle
    /\ doc = NoDoc
    /\ run_pc = "start"
    /\ pdf_files \in Batches
    /\ args.dir_exists \/ pdf_files = <<>>
    /\ file_index = 0
    /\ files \in [FileNames -> {NoFile, StaleFile}]
    /\ stdout = <<>>
    /\ passes = 0

\* lines 218-220
NoDirectory ==
    /\ run_pc = "start"
    /\ ~args.dir_exists
    /\ stdout' = Append(stdout, Msg("Error: Directory not found.", 0, <<>>))
    /\ ret' = FALSE
    /\ called' = TRUE
    /\ run_pc' = "returned"
    /\ UNCHANGED <<selfVars, procVars, parseVars, args, doc, pdf_files, file_index, files,
                   passes>>

\* lines 222-226
NoPdfFiles ==
    /\ run_pc = "start"
    /\ args.dir_exists
    /\ pdf_files = <<>>
    /\ stdout' = Append(stdout, Msg("No PDF files found in 'pdfs' directory.", 0, <<>>))
    /\ ret' = FALSE
    /\ called' = TRUE
    /\ run_pc' = "returned"
    /\ UNCHANGED <<selfVars, procVars, parseVars, args, doc, pdf_files, file_index, files,
                   passes>>

\* lines 222-228
EnterLoop ==
    /\ run_pc = "start"
    /\ args.dir_exists
    /\ pdf_files # <<>>
    /\ stdout' = Append(stdout, Msg("Found PDF(s) to process.", Len(pdf_files), <<>>))
    /\ run_pc' = "loop"
    /\ UNCHANGED <<fnVars, selfVars, procVars, parseVars, doc, pdf_files, file_index, files,
                   passes>>

\* line 254 without the try: nothing is caught
IsCaughtNever(exc) == FALSE

\* line 254: except Exception
IsCaught(exc) == exc \in ExceptionClasses

\* lines 230-252: the document is processed and its artifact written
DocumentProcessed ==
    /\ run_pc = "loop"
    /\ file_index < Len(pdf_files)
    /\ LET pdf_file == pdf_files[file_index + 1]
           out      == args.outcome[pdf_file]
       IN  /\ out.kind = "returns"
           /\ files' = [files EXCEPT ![pdf_file] =
                          File(Artifact(out.result.content, out.result.table_count,
                                        out.result.image_table_count,
                                        out.result.error_count))]
           /\ stdout' = stdout \o <<Msg("Processing", 0, <<Word(pdf_file)>>),
                                    Msg("Successfully processed", 0, <<Word(pdf_file)>>)>>
    /\ file_index' = file_index + 1
    /\ UNCHANGED <<fnVars, selfVars, procVars, parseVars, doc, run_pc, pdf_files, passes>>

\* lines 230-240 and 254-255: the constructor or process() raises, the
\* handler prints and the loop goes on
DocumentFailed ==
    /\ run_pc = "loop"
    /\ file_index < Len(pdf_files)
    /\ LET pdf_file == pdf_files[file_index + 1]
           out      == args.outcome[pdf_file]
       IN  /\ out.kind = "raises"
           /\ IsCaught(out.exc)
           /\ stdout' = stdout \o <<Msg("Processing", 0, <<Word(pdf_file)>>),
                                    Msg("Error processing", 0, <<Word(pdf_file)>>)>>
    /\ file_index' = file_index + 1
    /\ UNCHANGED <<fnVars, selfVars, procVars, parseVars, doc, run_pc, pdf_files, files,
                   passes>>

\* lines 230-240: what is raised is no Exception and leaves run_extraction
DocumentInterrupted ==
    /\ run_pc = "loop"
    /\ file_index < Len(pdf_files)
    /\ LET pdf_file == pdf_files[file_index + 1]
           out      == args.outcome[pdf_file]
       IN  /\ out.kind = "raises"
           /\ ~IsCaught(out.exc)
           /\ stdout' = Append(stdout, Msg("Processing", 0, <<Word(pdf_file)>>))
    /\ run_pc' = "raised"
    /\ UNCHANGED <<fnVars, selfVars, procVars, parseVars, doc, pdf_files, file_index, files,
                   passes>>

\* line 257
ReturnTrue ==
    /\ run_pc = "loop"
    /\ file_index = Len(pdf_files)
    /\ ret' = TRUE
    /\ called' = TRUE
    /\ run_pc' = "returned"
    /\ UNCHANGED <<selfVars, procVars, parseVars, args, doc, pdf_files, file_index, files,
                   stdout, passes>>

NextBatch ==
    \/ NoDirectory
    \/ NoPdfFiles
    \/ EnterLoop
    \/ DocumentProcessed
    \/ DocumentFailed
    \/ DocumentInterrupted
    \/ ReturnTrue

SpecBatch == InitBatch /\ [][NextBatch]_vars

(***************************************************************************)
(* Claims.                                                                 *)
(***************************************************************************)
\* the tables of the call that satisfy the caption
C1_Satisfying ==
    {k \in 1..Len(args.tables) :
        LET gap  == args.tables[k].y0 - args.caption_bbox.y1
            mid2 == args.caption_bbox.x0 + args.caption_bbox.x1
        IN  /\ gap > 0 /\ gap < 100
            /\ mid2 > 2 * args.tables[k].x0 /\ mid2 < 2 * args.tables[k].x1}

\* C1: is_covered_by_pdfplumber returns the first table, in detector order,
\* whose top edge lies strictly between 0 and 100 units below the caption's
\* bottom edge and whose horizontal span contains the caption's midpoint;
\* it returns none exactly when no table satisfies both.
C1_FirstCoveringTable ==
    called =>
        /\ (C1_Satisfying = {}) <=> (ret = 0)
        /\ C1_Satisfying # {} =>
              /\ ret \in C1_Satisfying
              /\ \A k \in C1_Satisfying : ret <= k

\* the second table is returned after a first one whose gap is exactly 100
C1_Witness ==
    /\ called
    /\ Len(args.tables) = 2
    /\ args.tables[1].y0 - args.caption_bbox.y1 = 100
    /\ ret = 2

\* C2: exactly one crop is chosen: midpoint < 0.45 W gives [0, 0.55 W],
\* midpoint > 0.55 W gives [0.45 W, W], every other midpoint, the two
\* boundary values included, gives [0, W].
C2_ColumnCrop ==
    called =>
        LET mid2 == args.caption_bbox.x0 + args.caption_bbox.x1
            w    == args.page_rect.width
            crop == <<ret.locals.x0, ret.locals.x1>>
        IN  /\ 100 * mid2 < 90 * w => crop = <<0, 55 * w>>
            /\ 100 * mid2 > 110 * w => crop = <<45 * w, 100 * w>>
            /\ (100 * mid2 >= 90 * w /\ 100 * mid2 <= 110 * w) => crop = <<0, 100 * w>>
            /\ roi # <<>> => <<roi[1].x0, roi[1].x1>> = crop

\* a caption whose midpoint is exactly 0.45 W was cropped to the full width
C2_Witness ==
    /\ called
    /\ 100 * (args.caption_bbox.x0 + args.caption_bbox.x1) = 90 * args.page_rect.width
    /\ roi # <<>>
    /\ roi[1].x0 = 0 /\ roi[1].x1 = 100 * args.page_rect.width

\* C3: with top = caption bottom + 5, the first bottom is next top - 5
\* exactly when a next top is supplied and next top - 5 - top >= 20; in
\* every other case it is min(top + 500, page height - 50).
C3_BottomNeeds20 ==
    called =>
        LET top  == args.caption_bbox.y1 + 5
            next == args.next_element_top
        IN  IF next # None /\ next - 5 - top >= 20
            THEN ret.locals.first_y1 = next - 5
            ELSE ret.locals.first_y1 = Min(top + 500, args.page_rect.height - 50)

\* C4: every rectangle handed to rendering has y1 > y0; whenever the first
\* bottom is <= top the bottom becomes min(top + 300, page height) and a
\* warning is logged.
C4_RectNotDegenerate ==
    /\ \A j \in 1..Len(roi) : roi[j].y1 > roi[j].y0
    /\ (called /\ ret.locals.first_y1 <= ret.locals.y0) =>
          /\ ret.locals.y1 = Min(ret.locals.y0 + 300, args.page_rect.height)
          /\ \E j \in 1..Len(processing_log) :
                processing_log[j].fmt = "[Warning] Invalid ROI calculated. Using default height."
          /\ error_count >= 1

\* the fallback bottom was used for a rectangle that was rendered
C4_Witness ==
    /\ called
    /\ ret.locals.first_y1 <= ret.locals.y0
    /\ roi # <<>>
    /\ roi[1].y1 = args.page_rect.height

\* the lines of a text whose first token is "Caption:"
C5_CaptionLines(text) ==
    {j \in 1..Len(text) : text[j] # <<>> /\ text[j][1] = Word("Caption:")}

\* C5: every stored ExtractedTable has non-empty content; a caption whose
\* OCR call returned the empty string adds no entry to processed_tables, and
\* the artifact holds as many 'Caption:' lines as there are stored entries.
C5_EmptyOcrNotStored ==
    /\ [](\A j \in 1..Len(processed_tables) : processed_tables[j].content # <<>>)
    /\ [][(extract_calls' = extract_calls + 1 /\ extracted_table_text' = <<>>)
            => processed_tables' = processed_tables]_vars
    /\ [](pc = "done" => Cardinality(C5_CaptionLines(ret.content)) = Len(processed_tables))

\* a finished run in which one of two OCR answers was empty and one was stored
C5_Witness ==
    /\ pc = "done"
    /\ ocr_calls = 2
    /\ Len(processed_tables) = 1
    /\ Cardinality(C5_CaptionLines(ret.content)) = 1

C7_CoveredCaptionFrame ==
    [][(cover_calls' = cover_calls + 1 /\ plumber_table' # 0)
         => /\ table_count' = table_count + 1
            /\ UNCHANGED <<image_table_count, processed_tables, full_content, roi,
                           extract_calls, ocr_calls>>]_vars

\* a covered caption was counted and nothing was extracted or stored
C7_Witness ==
    /\ plumber_table # 0
    /\ cover_calls = 1
    /\ table_count = 1
    /\ image_table_count = 0
    /\ extract_calls = 0
    /\ processed_tables = <<>>

\* the context selected by the most recent context-switch line of ls: a line
\* that is no data row and names a context; BASE when there is none
RECURSIVE C8_Context(_)
C8_Context(ls) ==
    IF ls = <<>> THEN "base"
    ELSE LET l == ls[Len(ls)]
             isRow == \E j \in 1..(Len(l) - 3) : \A m \in 1..3 : l[j + m].k = "n"
             words == {l[j].s : j \in 1..Len(l)}
         IN  IF ~isRow /\ words \cap {"tuned", "Optimal"} # {} THEN "tuned"
             ELSE IF ~isRow /\ words \cap {"base", "baseline"} # {} THEN "base"
             ELSE C8_Context(SubSeq(ls, 1, Len(ls) - 1))

\* C8: in every chunk parsing starts in BASE, and each parsed row is appended,
\* in line order, to the bucket selected by the most recent context-switch
\* line before it in the chunk; a row line, then 'tuned', then a row line
\* gives one BASE row and one TUNED row.
C8_ContextAttribution ==
    /\ [][(Len(base_rows') + Len(tuned_rows') > Len(base_rows) + Len(tuned_rows))
            => IF C8_Context(lines) = "base"
               THEN /\ Len(base_rows') = Len(base_rows) + 1
                    /\ SubSeq(base_rows', 1, Len(base_rows)) = base_rows
                    /\ tuned_rows' = tuned_rows
               ELSE /\ Len(tuned_rows') = Len(tuned_rows) + 1
                    /\ SubSeq(tuned_rows', 1, Len(tuned_rows)) = tuned_rows
                    /\ base_rows' = base_rows]_vars
    /\ [](lines = <<RowSVM, <<Word("tuned")>>, RowCNN>>
            => /\ base_rows = <<[Model |-> <<Word("SVM")>>, Precision |-> 9123,
                                 Recall |-> 8890, F1 |-> 9001]>>
               /\ tuned_rows = <<[Model |-> <<Word("CNN")>>, Precision |-> 8500,
                                  Recall |-> 8000, F1 |-> 9000]>>)

\* the chunk before ended in TUNED, and the first row of the next chunk went
\* to BASE
C8_Witness ==
    /\ chunks_read = 2
    /\ parsed_tables # <<>>
    /\ parsed_tables[Len(parsed_tables)].markdown[1][2] = Word("Tuned")
    /\ lines = <<RowSVM>>
    /\ Len(base_rows) = 1
    /\ tuned_rows = <<>>

\* the label of the line of the call, the value of a number token and the
\* token "{:.4f}" shows for it
C9_Label == SubSeq(args, 1, Len(args) - 3 - (IF args[Len(args)].k = "w" THEN 1 ELSE 0))

C9_Value(tok) == IF tok.ip = None THEN tok.v ELSE tok.ip * 10000 + tok.v

C9_Shown(tok) == [k |-> "n", s |-> "", ip |-> (IF tok.ip = None THEN 0 ELSE tok.ip), v |-> tok.v]

\* C9: the three numbers of a matched line 'L v1 v2 v3' are stored in textual
\* order as Precision, Recall, F1, and the row is rendered as
\* | L | v3 | v1 | v2 | under the header Model, F1 Score, Precision, Recall.
C9_ColumnOrder ==
    called =>
        LET n  == Len(C9_Label)
            v1 == args[n + 1]
            v2 == args[n + 2]
            v3 == args[n + 3]
        IN  /\ ret.rows.tuned = <<>>
            /\ ret.rows.base = <<[Model |-> C9_Label, Precision |-> C9_Value(v1),
                                  Recall |-> C9_Value(v2), F1 |-> C9_Value(v3)]>>
            /\ Len(ret.markdown) = 5
            /\ ret.markdown[3] =
                 <<Word("|"), Word("Model"), Word("|"), Word("F1"), Word("Score"), Word("|"),
                   Word("Precision"), Word("|"), Word("Recall"), Word("|")>>
            /\ ret.markdown[5] =
                 <<Word("|")>> \o C9_Label
                 \o <<Word("|"), C9_Shown(v3), Word("|"), C9_Shown(v1), Word("|"),
                      C9_Shown(v2), Word("|")>>

\* a line with three different numbers, the first written without its
\* leading zero, was parsed and rendered
C9_Witness ==
    /\ called
    /\ Len(ret.markdown) = 5
    /\ ret.rows.base[1].Precision = 8500
    /\ ret.rows.base[1].Recall = 9123
    /\ ret.rows.base[1].F1 = 10000
    /\ args[Len(C9_Label) + 1].ip = None

\* C10: rendering a ParsedRow and re-parsing the rendered markdown row yields
\* a row whose precision, recall and f1 equal the original fields.
C10_RoundTrip ==
    called =>
        /\ Len(ret.base) + Len(ret.tuned) = 1
        /\ \A r \in {ret.base[j] : j \in 1..Len(ret.base)}
                    \cup {ret.tuned[j] : j \in 1..Len(ret.tuned)} :
              /\ r.Precision = args.Precision
              /\ r.Recall = args.Recall
              /\ r.F1 = args.F1

\* the label of the row holds three number tokens in a row
C10_NumbersInLabel ==
    \E j \in 1..(Len(args.Model) - 2) : \A m \in 0..2 : args.Model[j + m].k = "n"

\* C10 as amended: for a ParsedRow whose label does not itself hold three
\* decimal numbers in a row, re-parsing the rendered markdown row yields no
\* row at all, in either bucket: the rendered numbers are separated by '|'.
C10_ReparseYieldsNoRow ==
    (called /\ ~C10_NumbersInLabel) => (ret.base = <<>> /\ ret.tuned = <<>>)

\* the row (0.5, 0.6, 0.7) was rendered and re-parsed, and no row came back
C10_Witness ==
    /\ called
    /\ args.Model = <<Word("SVM")>>
    /\ args.Precision = 5000 /\ args.Recall = 6000 /\ args.F1 = 7000
    /\ ret.base = <<>> /\ ret.tuned = <<>>

\* the lines of a file that are equal to the line given
C11_Count(content, line) == Cardinality({k \in 1..Len(content) : content[k] = line})

\* the "## <caption>" headings of a file
C11_Headings(content) ==
    Cardinality({k \in 1..Len(content) : content[k] # <<>> /\ content[k][1] = Word("##")})

\* C11: after process_all_extracted_files has run any number of times over
\* the artifact, the artifact holds the marker
\* '=== STANDARDIZED MARKDOWN TABLES ===' exactly once, followed by one block
\* per parsed table.
C11_StandardizedOnce ==
    \A f \in DOMAIN files :
        (passes >= 1 /\ files[f].exists) =>
            /\ C11_Count(files[f].content, StandardizedMarker) = 1
            /\ C11_Headings(files[f].content) = Len(parsed_tables)

\* the tables among ts that were rendered for the context given
C12_Blocks(ts, is_tuned) ==
    {k \in 1..Len(ts) : ts[k].markdown[1] = ContextLine(is_tuned)}

\* C12: when a caption chunk has been parsed, parse_extracted_file emits
\* exactly one rendered table for each context (base, tuned) whose bucket
\* holds at least one row, tagged with the chunk's caption and holding the
\* bucket's rows, and nothing for an empty bucket; a chunk with no rows emits
\* no table.
C12_OneBlockPerContext ==
    [][(p_pc = "lines" /\ p_pc' = "chunks") =>
         LET emitted == SubSeq(parsed_tables', Len(parsed_tables) + 1, Len(parsed_tables'))
         IN  /\ SubSeq(parsed_tables', 1, Len(parsed_tables)) = parsed_tables
             /\ Cardinality(C12_Blocks(emitted, FALSE)) = (IF base_rows # <<>> THEN 1 ELSE 0)
             /\ Cardinality(C12_Blocks(emitted, TRUE)) = (IF tuned_rows # <<>> THEN 1 ELSE 0)
             /\ Len(emitted) = Cardinality(C12_Blocks(emitted, FALSE))
                               + Cardinality(C12_Blocks(emitted, TRUE))
             /\ \A k \in 1..Len(emitted) :
                  /\ emitted[k].caption = current_caption
                  /\ Len(emitted[k].markdown) =
                       4 + (IF k \in C12_Blocks(emitted, TRUE) THEN Len(tuned_rows)
                            ELSE Len(base_rows))
    ]_vars

\* two chunks were parsed: the first had no row and emitted nothing, the
\* second had rows in the tuned bucket only and emitted the one tuned table
C12_Witness ==
    /\ p_pc = "chunks"
    /\ chunks_read = 2
    /\ base_rows = <<>>
    /\ tuned_rows # <<>>
    /\ Len(parsed_tables) = 1
    /\ parsed_tables[1].markdown[1] = ContextLine(TRUE)
    /\ parsed_tables[1].caption = <<Word("Caption:"), Word("TABLE"), IntTok(2)>>

\* the tables of processed_tables stored for page n, read off the records
C13_Stored(n) ==
    LET at == {k \in 1..Len(processed_tables) : processed_tables[k].page = n}
    IN  [m \in 1..Cardinality(at) |->
            processed_tables[CHOOSE k \in at : Cardinality({h \in at : h <= k}) = m]]

\* 'Caption: <text>', the content and the terminator line of each table
RECURSIVE C13_Entries(_)
C13_Entries(tables) ==
    IF tables = <<>> THEN <<>>
    ELSE << <<Word("Caption:")>> \o tables[1].caption >> \o tables[1].content
         \o <<Terminator, <<>> >> \o C13_Entries(Tail(tables))

\* the lines of pages n..num_pages, texts[n] being the plain text of page n
RECURSIVE C13_Layout(_, _)
C13_Layout(n, texts) ==
    IF n > num_pages THEN <<>>
    ELSE << <<Word("---"), Word("Page"), IntTok(n), Word("---")>> >> \o texts[n]
         \o (IF C13_Stored(n) # <<>>
             THEN << <<>>, DetectedMarker >> \o C13_Entries(C13_Stored(n))
             ELSE <<>>)
         \o C13_Layout(n + 1, texts)

\* ts is a part of the captions cs, in their order
C13_InOrder(ts, cs) ==
    \E f \in [1..Len(ts) -> 1..Len(cs)] :
        /\ \A k \in 1..Len(ts) : ts[k].caption = cs[f[k]].text
        /\ \A k \in 1..(Len(ts) - 1) : f[k] < f[k + 1]

\* C13: the text process() returns holds, for n = 1..N in this order, the
\* marker '--- Page n ---' once, followed by the page's plain text; the
\* '=== DETECTED IMAGE-BASED TABLES ===' block follows the text of a page if
\* and only if an ExtractedTable was stored for that page, and lists exactly
\* that page's ExtractedTables, in caption order, each as 'Caption: <text>',
\* content and the terminator line.
C13_ArtifactLayout ==
    /\ [](pc = "done" =>
            \E texts \in [1..num_pages -> doc.texts] : ret.content = C13_Layout(1, texts))
    /\ [][(pc = "caption" /\ pc' = "page") =>
            /\ C13_InOrder(C13_Stored(page_num + 1), captions)
            /\ Len(full_content') >= Len(full_content) + 2
            /\ full_content'[Len(full_content) + 2] = page_text]_vars

\* a two-page document was processed: two tables were stored for page 1 and
\* none for page 2, and the text returned holds one detected-tables block
C13_Witness ==
    /\ pc = "done"
    /\ num_pages = 2
    /\ Len(processed_tables) = 2
    /\ \A k \in 1..2 : processed_tables[k].page = 1
    /\ Cardinality({k \in 1..Len(ret.content) : ret.content[k] = DetectedMarker}) = 1
    /\ Cardinality({k \in 1..Len(ret.content) :
                       ret.content[k] # <<>> /\ ret.content[k][1] = Word("Caption:")}) = 2

\* the "Found Caption:" messages of the log
C14_Found == SelectSeq(processing_log, LAMBDA m : m.fmt = "Found Caption:")

\* the lines of the text process() returned that match the data-row pattern
C14_RowLines == {k \in 1..Len(ret.content) : RowMatch(ret.content[k]) # 0}

\* a 2-page document whose only caption is 'TABLE 1', on page 1, with no
\* native table under it, the OCR answer 'ModelA 0.5000 0.6000 0.7000', and
\* no row line in the text returned other than that answer; process() has
\* returned and the parsing stage has run over the artifact
C14_Case ==
    /\ run_pc = "returned"
    /\ passes >= 1
    /\ num_pages = 2
    /\ Len(C14_Found) = 1
    /\ C14_Found[1].text = T1
    /\ processing_log[2] = C14_Found[1]
    /\ cover_calls = 1 /\ plumber_table = 0
    /\ extracted_table_text = <<RowModelA>>
    /\ Cardinality(C14_RowLines) <= 1

\* C14: for a 2-page document whose only caption is 'TABLE 1' on page 1, not
\* covered by a native table, with OCR returning the single line
\* 'ModelA 0.5000 0.6000 0.7000' and no row line in the page texts, the
\* recovery stage stores exactly one ExtractedTable with total-table count 1
\* and image-table count 1, and the parsing stage over the artifact yields
\* exactly one rendered table, of context BASE, with the single row of ModelA.
C14_EndToEnd ==
    C14_Case =>
        /\ Len(processed_tables) = 1
        /\ processed_tables[1].page = 1
        /\ processed_tables[1].caption = T1
        /\ ret.table_count = 1
        /\ ret.image_table_count = 1
        /\ Len(parsed_tables) = 1
        /\ parsed_tables[1].caption = <<Word("Caption:"), Word("TABLE"), IntTok(1)>>
        /\ parsed_tables[1].markdown =
             << <<Word("**Context:"), Word("Base"), Word("Performance**")>>,
                <<>>, HeaderLine, AlignLine,
                <<Word("|"), Word("ModelA"), Word("|"), Num(0, 7000), Word("|"),
                  Num(0, 5000), Word("|"), Num(0, 6000), Word("|")>> >>

\* that document went through both stages, once
C14_Witness ==
    /\ C14_Case
    /\ passes = 1
    /\ Len(parsed_tables) = 1
    /\ Len(processed_tables) = 1

\* the spans of the call that match caption_pattern
C15_Matching == {k \in 1..Len(args) : CaptionPattern(args[k].text)}

\* C15: find_table_captions returns one caption per matching span, sorted
\* non-decreasingly by the top edge y0 of the span's box, spans of equal y0
\* keeping their document order, and the empty list when no span matches.
C15_SortedByTop ==
    called =>
        /\ Len(ret) = Cardinality(C15_Matching)
        /\ \E f \in [1..Len(ret) -> C15_Matching] :
             /\ \A j \in 1..Len(ret) : ret[j] = args[f[j]]
             /\ \A j, m \in 1..Len(ret) :
                  j < m =>
                    /\ f[j] # f[m]
                    /\ ret[j].bbox.y0 <= ret[m].bbox.y0
                    /\ (ret[j].bbox.y0 = ret[m].bbox.y0 => f[j] < f[m])

\* three matching spans were given, the first below the two others, which
\* share their top edge: the two come first, in their document order
C15_Witness ==
    /\ called
    /\ Len(args) = 3
    /\ args[1].bbox.y0 > args[2].bbox.y0
    /\ args[2].bbox.y0 = args[3].bbox.y0
    /\ args[2] # args[3]
    /\ ret = <<args[2], args[3], args[1]>>

\* the documents of the batch whose constructor or process() raises an
\* Exception of the engines
C16_Failing ==
    {k \in 1..Len(pdf_files) :
        /\ args.outcome[pdf_files[k]].kind = "raises"
        /\ args.outcome[pdf_files[k]].exc \in {"FileDataError", "TesseractError"}}

\* the documents whose processing something other than an Exception ends
C16_Interrupted ==
    {k \in 1..Len(pdf_files) :
        /\ args.outcome[pdf_files[k]].kind = "raises"
        /\ args.outcome[pdf_files[k]].exc = "KeyboardInterrupt"}

\* C16: in run_extraction, an exception raised while opening or processing
\* one document is caught for that document only: the step that meets it
\* writes no output file and goes on to the next document, the run is never
\* left because of it, and when the run returns every document of the batch
\* was attempted and exactly the documents that did not fail were written.
C16_CatchAndContinue ==
    /\ [][(run_pc = "loop" /\ (file_index + 1) \in C16_Failing) =>
            /\ files' = files
            /\ file_index' = file_index + 1
            /\ run_pc' = "loop"]_vars
    /\ [](run_pc = "raised" => (file_index + 1) \in C16_Interrupted)
    /\ []((run_pc = "returned" /\ pdf_files # <<>>) =>
            \A k \in 1..Len(pdf_files) :
               /\ \E j \in 1..Len(stdout) :
                     stdout[j] = Msg("Processing", 0, <<Word(pdf_files[k])>>)
               /\ (k \in C16_Failing) <=>
                     ~\E j \in 1..Len(stdout) :
                         stdout[j] = Msg("Successfully processed", 0, <<Word(pdf_files[k])>>))

\* a batch of two documents: OCR raised in the first, whose output file was
\* not written, and the second was processed and written behind it
C16_Witness ==
    /\ run_pc = "returned"
    /\ ret = TRUE
    /\ Len(pdf_files) = 2
    /\ C16_Failing = {1}
    /\ args.outcome[pdf_files[1]].at = "process"
    /\ ~files[pdf_files[1]].exists
    /\ files[pdf_files[2]].exists
    /\ files[pdf_files[2]] # StaleFile

\* the bucket the context given names, in a state of the parser
C17_Bucket(st, current) == IF current = "base" THEN st.base ELSE st.tuned

\* C17: for every non-blank line, (1) a line matching the data-row pattern
\* appends one row to the current bucket and leaves the context alone, even
\* when it holds 'optimal', 'tuned' or 'base'; (2) a line that is no row and
\* holds 'optimal' or 'tuned' switches the context to TUNED, even when it
\* also holds 'base', and gives no row; (3) a line that is no row and holds
\* 'base' and neither other keyword switches to BASE; (4) any other line
\* changes neither the context nor the buckets.
C17_TransitionPrecedence ==
    (called /\ args.line # <<>>) =>
        LET st    == args.st
            line  == args.line
            other == IF st.current = "base" THEN "tuned" ELSE "base"
        IN  /\ RowMatch(line) # 0 =>
                 /\ ret.current = st.current
                 /\ Len(C17_Bucket(ret, st.current)) = Len(C17_Bucket(st, st.current)) + 1
                 /\ SubSeq(C17_Bucket(ret, st.current), 1, Len(C17_Bucket(st, st.current)))
                      = C17_Bucket(st, st.current)
                 /\ C17_Bucket(ret, other) = C17_Bucket(st, other)
            /\ (RowMatch(line) = 0 /\ HasTuned(line)) =>
                 ret = [st EXCEPT !.current = "tuned"]
            /\ (RowMatch(line) = 0 /\ HasBase(line) /\ ~HasTuned(line)) =>
                 ret = [st EXCEPT !.current = "base"]
            /\ (RowMatch(line) = 0 /\ ~HasBase(line) /\ ~HasTuned(line)) =>
                 ret = st

\* in the base context, the row line "tuned SVM 0.9123 0.9123 0.9123" gave a
\* row of the base bucket and the context stayed BASE
C17_Witness ==
    /\ called
    /\ args.st.current = "base"
    /\ args.line = <<Word("tuned"), Word("SVM"), Num(0, 9123), Num(0, 9123), Num(0, 9123)>>
    /\ ret.current = "base"
    /\ Len(ret.base) = Len(args.st.base) + 1
    /\ ret.tuned = args.st.tuned

\* the decimal numbers the line ends with, counted from its end
C18_Numbers ==
    LET line == args.line
    IN  CHOOSE n \in 0..Len(line) :
           /\ \A k \in (Len(line) - n + 1)..Len(line) : line[k].k = "n"
           /\ (n < Len(line) => line[Len(line) - n].k # "n")

\* the rows the call added to the two buckets
C18_Added ==
    SubSeq(ret.base, Len(args.st.base) + 1, Len(ret.base))
    \o SubSeq(ret.tuned, Len(args.st.tuned) + 1, Len(ret.tuned))

\* C18: a line produces a ParsedRow only when it consists of a non-empty
\* label followed by exactly three decimal numbers; a line whose label is
\* followed by fewer or by more than three decimal numbers produces no row,
\* and a produced row holds the three numbers of the line.
C18_ExactlyThreeNumbers ==
    called =>
        LET line == args.line
            n    == C18_Numbers
        IN  /\ (n # 3 \/ Len(line) < 4) => C18_Added = <<>>
            /\ C18_Added # <<>> =>
                 /\ Len(C18_Added) = 1
                 /\ C18_Added[1].Model = SubSeq(line, 1, Len(line) - 3)
                 /\ C18_Added[1].Precision = Float(line[Len(line) - 2])
                 /\ C18_Added[1].Recall = Float(line[Len(line) - 1])
                 /\ C18_Added[1].F1 = Float(line[Len(line)])

\* what the parser has of an ExtractedTable of its own: the caption as far
\* as "Caption: TABLE n", and the rest of the caption with the OCR content
C19_Caption(t) == <<Word("Caption:"), t.caption[1], DigitsTaken(t.caption[2])>>

C19_OwnLines(t) ==
    <<DigitsLeft(t.caption[2]) \o SubSeq(t.caption, 3, Len(t.caption))>> \o t.content

\* the tables rendered when each caption is given its own lines only
RECURSIVE C19_Isolated(_)
C19_Isolated(tables) ==
    IF tables = <<>> THEN <<>>
    ELSE LET own == parse_table_block(C19_OwnLines(tables[1]))
         IN  Rendered(C19_Caption(tables[1]), own.base, own.tuned)
             \o C19_Isolated(Tail(tables))

\* C19: when the parsing stage reads an artifact produced by process(), the
\* lines fed to the state machine for a caption are that caption's own text
\* remainder and OCR content only: the text behind the terminator of the
\* page's last table (later pages, the processing summary) gives no row and
\* no context switch, so the tables parsed are those of the captions' own
\* lines.
C19_HandoffIsolation ==
    (run_pc = "returned" /\ passes = 1) => parsed_tables = C19_Isolated(processed_tables)

\* the last step ran the Region Inferencer for captions[i], a rectangle was
\* rendered for it, and a caption follows it in the sorted list
C20_RegionWithNext ==
    /\ pc = "caption"
    /\ i >= 1
    /\ i < Len(captions)
    /\ processing_log[Len(processing_log)] = Msg("ROI", 0, <<>>)

\* C20: for every uncovered caption that has a following caption on the same
\* page (the next entry of the sorted caption list), the bottom edge of the
\* OCR region never lies below that next caption's top edge.
C20_BottomAboveNextCaption ==
    C20_RegionWithNext => roi[Len(roi)].y1 <= captions[i + 1].bbox.y0

\* C20 as amended: with top = caption bottom + 5, the bottom edge of the
\* region is 5 units above the next caption's top edge when that top edge
\* lies more than 20 units below top; when the next caption is nearer, it
\* does not bound the region, whose bottom edge is the cap
\* min(top + 500, page height - 50), or min(top + 300, page height) when the
\* cap is not below top, and may lie below the next caption's top edge.
C20_BoundedWhenFarEnough ==
    C20_RegionWithNext =>
        LET top    == captions[i].bbox.y1 + 5
            next   == captions[i + 1].bbox.y0
            cap    == Min(top + 500, page.rect.height - 50)
            bottom == roi[Len(roi)].y1
        IN  /\ roi[Len(roi)].y0 = top
            /\ next > top + 20 => (bottom = next - 5 /\ bottom <= next)
            /\ next <= top + 20 =>
                 bottom = (IF cap > top THEN cap ELSE Min(top + 300, page.rect.height))

\* the caption at y 100..110 is followed by a caption whose top is 120: the
\* region runs from 115 to 615, past the next caption
C20_Witness ==
    /\ C20_RegionWithNext
    /\ captions[i].bbox.y1 = 110
    /\ captions[i + 1].bbox.y0 = 120
    /\ roi[Len(roi)].y0 = 115
    /\ roi[Len(roi)].y1 = 615

\* the warning of line 116
C21_Warning == Msg("[Warning] Caption at bottom of page. Skipping.", 0, <<>>)

\* the Region Inferencer is run for captions[i + 1], whose region top
\* (caption bottom + 5) is at or below the bottom of the page
C21_BottomCaptionStep ==
    /\ pc = "caption"
    /\ i < Len(captions)
    /\ extract_calls' = extract_calls + 1
    /\ captions[i + 1].bbox.y1 + 5 >= page.rect.height

\* C21: when the region top (caption bottom + 5) is greater than or equal to
\* the page height, extract_table_image_ocr renders nothing, makes no OCR
\* call, returns the empty string and logs a warning, which raises the error
\* counter; process() stores no ExtractedTable for that caption and goes on
\* with the next caption.
C21_BottomCaptionSkipped ==
    [][C21_BottomCaptionStep =>
         /\ roi' = roi
         /\ ocr_calls' = ocr_calls
         /\ extracted_table_text' = <<>>
         /\ processing_log'[Len(processing_log')] = C21_Warning
         /\ error_count' >= error_count + 1
         /\ processed_tables' = processed_tables
         /\ full_content' = full_content
         /\ i' = i + 1
         /\ pc' = "caption"]_vars

\* a caption at y 788..798 of a page 800 high was met: the Region Inferencer
\* was called, nothing was rendered, scanned or stored, the warning is the
\* last message of the log and the caption was counted as an image table
C21_Witness ==
    /\ pc = "caption"
    /\ i = 1
    /\ captions[1].bbox.y1 = 798
    /\ page.rect.height = 800
    /\ extract_calls = 1
    /\ ocr_calls = 0
    /\ roi = <<>>
    /\ processed_tables = <<>>
    /\ processing_log[Len(processing_log)] = C21_Warning
    /\ error_count >= 1
    /\ image_table_count = 1

\* the "Found Caption:" messages of the log that name a caption text for the
\* first time on their page, a page starting at its "Processing Page" message
C22_Pairs ==
    {j \in 1..Len(processing_log) :
        /\ processing_log[j].fmt = "Found Caption:"
        /\ ~\E h \in 1..(j - 1) :
              /\ processing_log[h].fmt = "Found Caption:"
              /\ processing_log[h].text = processing_log[j].text
              /\ \A m \in h..j : processing_log[m].fmt # "Processing Page"}

\* those of them that were not reported as covered by a native table
C22_Uncovered ==
    {j \in C22_Pairs :
        processing_log[j + 1].fmt # "-> Covered by standard table extraction."}

\* a native table of the page lies under the box: its top is less than 100
\* units below the box and the middle of the box is inside its width
C22_Covered(bbox) ==
    \E k \in 1..Len(page.tables) :
        /\ page.tables[k].y0 - bbox.y1 > 0
        /\ page.tables[k].y0 - bbox.y1 < 100
        /\ bbox.x0 + bbox.x1 > 2 * page.tables[k].x0
        /\ bbox.x0 + bbox.x1 < 2 * page.tables[k].x1

\* C22: at every point of process() both counters are non-decreasing and
\* (number of stored ExtractedTables) <= image-table count <= total-table
\* count; every caption whose text is new on its page raises the total count
\* by one, and the image-table count by one exactly when no native table
\* covers it, whether or not its OCR gave text, and no other step changes a
\* counter; at the end the total count is the number of (page, distinct
\* caption text) pairs and the image-table count the number of those pairs
\* not covered by a native table.
C22_CounterInvariant ==
    /\ [](/\ Len(processed_tables) <= image_table_count
          /\ image_table_count <= table_count)
    /\ [][/\ table_count' >= table_count
          /\ image_table_count' >= image_table_count
          /\ IF pc = "caption" /\ i' = i + 1
             THEN LET caption == captions[i + 1]
                      fresh   == \A k \in 1..i : captions[k].text # caption.text
                  IN  /\ table_count' = table_count + (IF fresh THEN 1 ELSE 0)
                      /\ image_table_count' = image_table_count
                           + (IF fresh /\ ~C22_Covered(caption.bbox) THEN 1 ELSE 0)
             ELSE /\ table_count' = table_count
                  /\ image_table_count' = image_table_count]_vars
    /\ [](pc = "done" =>
            /\ ret.table_count = Cardinality(C22_Pairs)
            /\ ret.image_table_count = Cardinality(C22_Uncovered))

\* a document was processed to its end with a caption text met twice on one
\* page, a caption covered by a native table and an uncovered caption whose
\* OCR gave no text: 2 tables counted, 1 image table, none stored
C22_Witness ==
    /\ pc = "done"
    /\ Cardinality({j \in 1..Len(processing_log) :
                       processing_log[j].fmt = "Found Caption:"}) = 3
    /\ ret.table_count = 2
    /\ ret.image_table_count = 1
    /\ cover_calls = 2
    /\ extract_calls = 1
    /\ processed_tables = <<>>

====
